---- MODULE Spec2Model ----
(***************************************************************************)
(* Model of the adaptive trading agent of src/main.py.                     *)
(*                                                                         *)
(* One invocation of quant_agent_entry is load_state, quant_agent_logic    *)
(* (adaptation check, exit logic, entry logic), save_state and the         *)
(* response.  Each of these is one action; pc[p] is the position of        *)
(* invocation context p.  Currency amounts (floats in the source) are      *)
(* whole rupees; the random draws of the mocks (price, premium, PnL        *)
(* fraction, rejection, exit coin) are choices from small sets.  The       *)
(* fields order_id and entry_time (wall-clock stamps) are left out.        *)
(*                                                                         *)
(* Spec runs invocations one after the other, with load and save failures; *)
(* SpecReliable is Spec without those failures; SpecInputs starts from a   *)
(* state file given as input; SpecConc runs two overlapping invocations.   *)
(***************************************************************************)
EXTENDS Integers, Sequences, FiniteSets, TLC

\* ---------------------------------------------------------------- bounds
\* No invocation loads a persisted state that has already opened MaxTrades
\* positions (trade_id_counter is unbounded in the source).
MaxTrades == 4

\* The longest list of open positions a state file given as input holds.
MaxOpen == 3

\* Invocation contexts.  Spec runs context 1 alone (one invocation per
\* scheduler tick).
Procs == {1, 2}

\* --------------------------------------------------- program constants
INITIAL_CAPITAL == 10000

LOSS_THRESHOLD_FOR_ADAPTATION == (INITIAL_CAPITAL * 25) \div 100

LOT_SIZE == 50

PRICE_BASE == 23000

\* MAX_RISK_CAPITAL = INITIAL_CAPITAL * 0.10
MAX_RISK_CAPITAL == (INITIAL_CAPITAL * 10) \div 100

\* random.uniform(-100, 100) added to the base price: below, at, above.
Prices == {PRICE_BASE - 50, PRICE_BASE, PRICE_BASE + 50}

\* random.uniform(100, 200): the two ends of the premium range.
Premiums == {100, 200}

\* random.uniform(-0.15, 0.20), in percent of the entry cost.
PnLPercents == {-15, 0, 20}

\* ------------------------------------------------------------- helpers
Max(a, b) == IF a >= b THEN a ELSE b

\* Python int(a / b) for b > 0: truncation toward zero.
IntTrunc(a, b) == IF a >= 0 THEN a \div b ELSE -((-a) \div b)

\* Python abs.
Abs(x) == IF x < 0 THEN -x ELSE x

DefaultState ==
    [capital          |-> INITIAL_CAPITAL,
     strategy_version |-> 1,
     total_losses     |-> 0,
     positions        |-> <<>>,
     trade_id_counter |-> 0]

NoPosition == [id |-> 0, entry_cost |-> 0, entry_premium |-> 0, lots |-> 0, type |-> "NONE"]

NoOrder == [status |-> "NONE", entry_cost |-> 0, entry_premium |-> 0]

\* The locals of quant_agent_logic at its first line.
NoLocals ==
    [closed            |-> FALSE,
     pos               |-> NoPosition,
     PnL               |-> 0,
     current_nifty_price |-> 0,
     signal            |-> "NONE",
     available_capital |-> 0,
     orders            |-> 0,
     lots_to_buy       |-> 0,
     order_result      |-> NoOrder]

\* The contents of STATE_FILE.
FileAbsent == [kind |-> "absent"]

FileCorrupt == [kind |-> "corrupt"]

FileForeign == [kind |-> "foreign"]

\* json.dump of a state: the JSON text of the dict.  json.load of that text
\* gives back an equal dict (ints, floats by repr, strings and lists all
\* round-trip), so the text is represented by the dict it denotes.
JsonDump(s) == [kind |-> "state", data |-> s]

VARIABLES
    file,        \* contents of STATE_FILE
    pc,          \* pc[p]: position of invocation p
    state,       \* state[p]: the AgentState dict invocation p works on
    usable,      \* usable[p]: whether the loaded object is an AgentState dict
    pre,         \* pre[p]: the state as quant_agent_logic received it
    loc,         \* loc[p]: the locals of quant_agent_logic
    log_messages,\* log_messages[p]: the log lines of the cycle
    out,         \* out[p]: console lines of save_state, response and status
    openedIds,   \* ids of all positions opened so far (history)
    everSwitched,\* whether some cycle so far performed the v1->v2 switch (history)
    loaded,      \* loaded[p]: where load_state took its result: "file" or "default"
    closedPnL,   \* closedPnL[p]: sum of the PnL of the positions closed in the
                 \* history of state[p] (history)
    savedPnL,    \* closedPnL of the state the file holds (history)
    lastSaver    \* the invocation whose save_state last succeeded, 0 if none (history)

vars == <<file, pc, state, usable, pre, loc, log_messages, out, openedIds, everSwitched,
          loaded, closedPnL, savedPnL, lastSaver>>

NoOutput == [printed |-> <<>>, response |-> <<>>, status |-> 0]

\* Before the first invocation STATE_FILE (a fixed path under /tmp) is absent,
\* or holds JSON left there by another writer: text that parses but is not an
\* AgentState dict.  load_state returns whatever json.load yields (line 22).
Init ==
    /\ file \in {FileAbsent, FileForeign}
    /\ pc = [p \in Procs |-> "idle"]
    /\ state = [p \in Procs |-> DefaultState]
    /\ usable = [p \in Procs |-> TRUE]
    /\ pre = [p \in Procs |-> DefaultState]
    /\ loc = [p \in Procs |-> NoLocals]
    /\ log_messages = [p \in Procs |-> <<>>]
    /\ out = [p \in Procs |-> NoOutput]
    /\ openedIds = {}
    /\ everSwitched = FALSE
    /\ loaded = [p \in Procs |-> "none"]
    /\ closedPnL = [p \in Procs |-> 0]
    /\ savedPnL = 0
    /\ lastSaver = 0

\* ----------------------------------------------------------- load_state
\* What load_state returns for file contents f; readOk is whether open and
\* read succeed when the file exists.
\* from: "file" when the result is what json.load returned (line 22),
\* "default" when it is the dict of lines 27-33; ok: whether it is an
\* AgentState dict.
\* Fault variant: the defaults are laid over the loaded dict, so the counter
\* restarts at 0.
LoadResult_CounterReset(f, readOk) ==
    IF f.kind = "absent" THEN [ok |-> TRUE, from |-> "default", data |-> DefaultState]
    ELSE IF ~readOk \/ f.kind = "corrupt"
         THEN [ok |-> TRUE, from |-> "default", data |-> DefaultState]
    ELSE IF f.kind = "foreign" THEN [ok |-> FALSE, from |-> "file", data |-> DefaultState]
    ELSE [ok |-> TRUE, from |-> "file", data |-> [f.data EXCEPT !.trade_id_counter = 0]]

LoadResult(f, readOk) ==
    IF f.kind = "absent" THEN [ok |-> TRUE, from |-> "default", data |-> DefaultState]
    ELSE IF ~readOk \/ f.kind = "corrupt"
         THEN [ok |-> TRUE, from |-> "default", data |-> DefaultState]
    ELSE IF f.kind = "foreign" THEN [ok |-> FALSE, from |-> "file", data |-> DefaultState]
    ELSE [ok |-> TRUE, from |-> "file", data |-> f.data]

\* load_state when reading an existing file succeeds (readOk) or fails.
LoadWith(p, readOk) ==
    /\ pc[p] \in {"idle", "done", "crashed"}
    /\ LET r == LoadResult(file, readOk) IN
           /\ r.data.trade_id_counter < MaxTrades
           /\ usable' = [usable EXCEPT ![p] = r.ok]
           /\ state' = [state EXCEPT ![p] = IF r.ok THEN r.data ELSE @]
           /\ pre' = [pre EXCEPT ![p] = IF r.ok THEN r.data ELSE @]
           /\ loaded' = [loaded EXCEPT ![p] = r.from]
           /\ closedPnL' = [closedPnL EXCEPT ![p] = IF r.from = "file" THEN savedPnL ELSE 0]
    /\ pc' = [pc EXCEPT ![p] = "adapt"]
    /\ loc' = [loc EXCEPT ![p] = NoLocals]
    /\ log_messages' = [log_messages EXCEPT ![p] = <<>>]
    /\ out' = [out EXCEPT ![p] = NoOutput]
    /\ UNCHANGED <<file, openedIds, everSwitched, savedPnL, lastSaver>>

load_state(p) == \E readOk \in BOOLEAN : LoadWith(p, readOk)

\* ---------------------------------------- quant_agent_logic, step 1
Adapts(s) ==
    s.total_losses >= LOSS_THRESHOLD_FOR_ADAPTATION /\ s.strategy_version < 2

\* Fault variant: the switch forgets to reset the loss counter (line 103 dropped).
AdaptState_KeepsLosses(s) ==
    IF Adapts(s) THEN [s EXCEPT !.strategy_version = 2] ELSE s

AdaptState(s) ==
    IF Adapts(s)
    THEN [s EXCEPT !.strategy_version = 2, !.total_losses = 0]
    ELSE s

AdaptLogs(s) ==
    IF Adapts(s) THEN <<"ADAPTATION", "SWITCHING">> ELSE <<>>

adaptation_check(p) ==
    /\ pc[p] = "adapt"
    /\ IF usable[p]
       THEN /\ state' = [state EXCEPT ![p] = AdaptState(@)]
            /\ log_messages' = [log_messages EXCEPT ![p] = @ \o AdaptLogs(state[p])]
            /\ everSwitched' = (everSwitched \/ Adapts(state[p]))
            /\ pc' = [pc EXCEPT ![p] = "exit"]
       ELSE \* state['total_losses'] raises; nothing in quant_agent_entry catches it
            /\ pc' = [pc EXCEPT ![p] = "crashed"]
            /\ UNCHANGED <<state, log_messages, everSwitched>>
    /\ UNCHANGED <<file, usable, pre, loc, out, openedIds, loaded, closedPnL, savedPnL, lastSaver>>

\* ---------------------------------------- quant_agent_logic, step 2
ComputePnL(pos, pct) == (pos.entry_cost * pct) \div 100

\* Fault variant: the loss counter takes -PnL whatever its sign (line 115
\* without the PnL < 0 test).
CloseState_SignedLoss(s, pct) ==
    LET pos == Head(s.positions)
        PnL == ComputePnL(pos, pct)
    IN [s EXCEPT !.positions = Tail(@),
                 !.capital = @ + pos.entry_cost + PnL,
                 !.total_losses = @ - PnL]

\* Fault variant: the entry cost is not returned to capital (line 114 adds PnL alone).
CloseState_PnLOnly(s, pct) ==
    LET pos == Head(s.positions)
        PnL == ComputePnL(pos, pct)
    IN [s EXCEPT !.positions = Tail(@),
                 !.capital = @ + PnL,
                 !.total_losses = @ + (IF PnL < 0 THEN Abs(PnL) ELSE 0)]

\* Fault variant: pop() instead of pop(0), the newest position is closed.
CloseState_PopsLast(s, pct) ==
    LET pos == s.positions[Len(s.positions)]
        PnL == ComputePnL(pos, pct)
    IN [s EXCEPT !.positions = SubSeq(@, 1, Len(@) - 1),
                 !.capital = @ + pos.entry_cost + PnL,
                 !.total_losses = @ + (IF PnL < 0 THEN Abs(PnL) ELSE 0)]

\* Fault variant: the adaptation check is applied again right after the loss
\* is booked.
CloseState_AdaptsOnLoss(s, pct) ==
    LET pos == Head(s.positions)
        PnL == ComputePnL(pos, pct)
    IN AdaptState([s EXCEPT !.positions = Tail(@),
                            !.capital = @ + pos.entry_cost + PnL,
                            !.total_losses = @ + (IF PnL < 0 THEN Abs(PnL) ELSE 0)])

CloseState(s, pct) ==
    LET pos == Head(s.positions)
        PnL == ComputePnL(pos, pct)
    IN [s EXCEPT !.positions = Tail(@),
                 !.capital = @ + pos.entry_cost + PnL,
                 !.total_losses = @ + (IF PnL < 0 THEN Abs(PnL) ELSE 0)]

exit_logic(p) ==
    /\ pc[p] = "exit"
    /\ \E coin \in BOOLEAN, pct \in PnLPercents :
         IF state[p].positions # <<>> /\ coin
         THEN /\ state' = [state EXCEPT ![p] = CloseState(@, pct)]
              /\ loc' = [loc EXCEPT ![p].closed = TRUE,
                                    ![p].pos = Head(state[p].positions),
                                    ![p].PnL = ComputePnL(Head(state[p].positions), pct)]
              /\ log_messages' = [log_messages EXCEPT ![p] = Append(@, "CLOSE")]
              /\ closedPnL' = [closedPnL EXCEPT ![p] =
                                   @ + ComputePnL(Head(state[p].positions), pct)]
         ELSE UNCHANGED <<state, loc, log_messages, closedPnL>>
    /\ pc' = [pc EXCEPT ![p] = "entry"]
    /\ UNCHANGED <<file, usable, pre, out, openedIds, everSwitched, loaded, savedPnL, lastSaver>>

\* ---------------------------------------- quant_agent_logic, step 3
\* Fault variant: the entry step does not look at the open positions.
CanEnter_Always(s) == TRUE

\* Fault variant: <= 1 in place of == 0 on line 126.
CanEnter_UpToOne(s) == Len(s.positions) <= 1

\* len(state['positions']) == 0
CanEnter(s) == Len(s.positions) = 0

\* Fault variant: >= in place of > on line 124.
Signal_AtOrAbove(price) == IF price >= PRICE_BASE THEN "BUY_CE" ELSE "BUY_PE"

Signal(price) == IF price > PRICE_BASE THEN "BUY_CE" ELSE "BUY_PE"

\* Fault variant: version 1 sizes by 5000 per lot instead of 7500.
LotsToBuy_Per5000(version, available_capital) ==
    IF version = 1 THEN Max(1, IntTrunc(available_capital, 5000))
    ELSE IF version = 2 THEN Max(1, IntTrunc(MAX_RISK_CAPITAL, 7500))
    ELSE 1

LotsToBuy(version, available_capital) ==
    IF version = 1 THEN Max(1, IntTrunc(available_capital, 7500))
    ELSE IF version = 2 THEN Max(1, IntTrunc(MAX_RISK_CAPITAL, 7500))
    ELSE 1

SizingLogs(version) ==
    IF version = 1 THEN <<"DUMB_TRADE">>
    ELSE IF version = 2 THEN <<"SMART_TRADE">>
    ELSE <<>>

place_order(lots, premium, rejected) ==
    IF rejected
    THEN [status |-> "REJECTED", entry_cost |-> 0, entry_premium |-> 0]
    ELSE [status |-> "EXECUTED", entry_cost |-> premium * lots * LOT_SIZE,
          entry_premium |-> premium]

\* Fault variant: the order's status is not tested (line 145 dropped).
OrderState_IgnoresStatus(s, res, lots, signal) ==
    [s EXCEPT !.trade_id_counter = @ + 1,
              !.positions = Append(@, [id |-> s.trade_id_counter + 1,
                                       entry_cost |-> res.entry_cost,
                                       entry_premium |-> res.entry_premium,
                                       lots |-> lots,
                                       type |-> signal]),
              !.capital = @ - res.entry_cost]

\* Fault variant: an executed order the capital does not cover is dropped.
OrderState_ChecksAffordability(s, res, lots, signal) ==
    IF res.status = "EXECUTED" /\ res.entry_cost <= s.capital
    THEN [s EXCEPT !.trade_id_counter = @ + 1,
                   !.positions = Append(@, [id |-> s.trade_id_counter + 1,
                                            entry_cost |-> res.entry_cost,
                                            entry_premium |-> res.entry_premium,
                                            lots |-> lots,
                                            type |-> signal]),
                   !.capital = @ - res.entry_cost]
    ELSE s

\* Fault variant: the position is appended but capital is not debited (line
\* 156 dropped).
OrderState_NoDebit(s, res, lots, signal) ==
    IF res.status = "EXECUTED"
    THEN [s EXCEPT !.trade_id_counter = @ + 1,
                   !.positions = Append(@, [id |-> s.trade_id_counter + 1,
                                            entry_cost |-> res.entry_cost,
                                            entry_premium |-> res.entry_premium,
                                            lots |-> lots,
                                            type |-> signal])]
    ELSE s

OrderState(s, res, lots, signal) ==
    IF res.status = "EXECUTED"
    THEN [s EXCEPT !.trade_id_counter = @ + 1,
                   !.positions = Append(@, [id |-> s.trade_id_counter + 1,
                                            entry_cost |-> res.entry_cost,
                                            entry_premium |-> res.entry_premium,
                                            lots |-> lots,
                                            type |-> signal]),
                   !.capital = @ - res.entry_cost]
    ELSE s

OrderLogs(res) ==
    IF res.status = "EXECUTED" THEN <<"OPEN">> ELSE <<"ERROR">>

entry_logic(p) ==
    /\ pc[p] = "entry"
    /\ \E price \in Prices, premium \in Premiums, rejected \in BOOLEAN :
         LET signal == Signal(price)
             available_capital == state[p].capital
         IN IF CanEnter(state[p])
            THEN LET lots == LotsToBuy(state[p].strategy_version, available_capital)
                     res == place_order(lots, premium, rejected)
                     s2 == OrderState(state[p], res, lots, signal)
                 IN /\ state' = [state EXCEPT ![p] = s2]
                    /\ loc' = [loc EXCEPT ![p].current_nifty_price = price,
                                          ![p].signal = signal,
                                          ![p].available_capital = available_capital,
                                          ![p].orders = @ + 1,
                                          ![p].lots_to_buy = lots,
                                          ![p].order_result = res]
                    /\ log_messages' = [log_messages EXCEPT ![p] =
                           @ \o SizingLogs(state[p].strategy_version) \o OrderLogs(res)]
                    /\ openedIds' = IF res.status = "EXECUTED"
                                    THEN openedIds \cup {s2.trade_id_counter}
                                    ELSE openedIds
            ELSE /\ loc' = [loc EXCEPT ![p].current_nifty_price = price,
                                       ![p].signal = signal,
                                       ![p].available_capital = available_capital]
                 /\ UNCHANGED <<state, log_messages, openedIds>>
    /\ pc' = [pc EXCEPT ![p] = "save"]
    /\ UNCHANGED <<file, usable, pre, out, everSwitched, loaded, closedPnL, savedPnL, lastSaver>>

\* ----------------------------------------------------------- save_state
\* outcome "ok": the file holds the dumped state; "open_failed": open raises
\* and the file is as it was; "dump_failed": open truncated the file and the
\* write raised, leaving text that does not parse.
SaveOutcomes == {"ok", "open_failed", "dump_failed"}

\* Fault variant: the file is opened for exclusive creation, so a state already
\* saved is not overwritten.
SavedFile_NoOverwrite(f, s, outcome) ==
    IF outcome = "ok" THEN (IF f.kind = "state" THEN f ELSE JsonDump(s))
    ELSE IF outcome = "open_failed" THEN f
    ELSE FileCorrupt

SavedFile(f, s, outcome) ==
    IF outcome = "ok" THEN JsonDump(s)
    ELSE IF outcome = "open_failed" THEN f
    ELSE FileCorrupt

SaveWith(p, outcome) ==
    /\ pc[p] = "save"
    /\ file' = SavedFile(file, state[p], outcome)
    /\ out' = [out EXCEPT ![p].printed =
                   IF outcome = "ok" THEN @ ELSE Append(@, "ERROR: Could not save state")]
    /\ savedPnL' = (IF outcome = "ok" THEN closedPnL[p]
                    ELSE IF outcome = "open_failed" THEN savedPnL
                    ELSE 0)
    /\ lastSaver' = (IF outcome = "ok" THEN p ELSE lastSaver)
    /\ pc' = [pc EXCEPT ![p] = "respond"]
    /\ UNCHANGED <<state, usable, pre, loc, log_messages, openedIds, everSwitched,
                   loaded, closedPnL>>

save_state(p) == \E outcome \in SaveOutcomes : SaveWith(p, outcome)

\* ------------------------------------- quant_agent_entry, lines 182-192
ResponseLogs(logs) == <<"Quant Agent Cycle Completed:">> \o logs \o <<"FINAL CAPITAL">>

respond(p) ==
    /\ pc[p] = "respond"
    /\ out' = [out EXCEPT ![p].printed = @ \o ResponseLogs(log_messages[p]),
                          ![p].response = ResponseLogs(log_messages[p]),
                          ![p].status = 200]
    /\ pc' = [pc EXCEPT ![p] = "done"]
    /\ UNCHANGED <<file, state, usable, pre, loc, log_messages, openedIds, everSwitched,
                   loaded, closedPnL, savedPnL, lastSaver>>

\* --------------------------------------------------------- specification
\* Invocations one after the other, as the scheduler triggers them.
Next ==
    \/ load_state(1)
    \/ adaptation_check(1)
    \/ exit_logic(1)
    \/ entry_logic(1)
    \/ save_state(1)
    \/ respond(1)

Spec == Init /\ [][Next]_vars

\* Invocations one after the other in which reading an existing state file
\* and writing it always succeed.
NextReliable ==
    \/ LoadWith(1, TRUE)
    \/ adaptation_check(1)
    \/ exit_logic(1)
    \/ entry_logic(1)
    \/ SaveWith(1, "ok")
    \/ respond(1)

SpecReliable == Init /\ [][NextReliable]_vars

\* Invocations one after the other on a state file given as input: a saved
\* AgentState with 0..MaxOpen open positions, in the order they were opened
\* (the data model allows a list of positions; quant_agent_logic takes any).
InputPosition(i) ==
    [id            |-> i,
     entry_cost    |-> (IF i % 2 = 0 THEN 200 ELSE 100) * LOT_SIZE,
     entry_premium |-> (IF i % 2 = 0 THEN 200 ELSE 100),
     lots          |-> 1,
     type          |-> (IF i % 2 = 0 THEN "BUY_PE" ELSE "BUY_CE")]

InputStates ==
    {[capital          |-> INITIAL_CAPITAL,
      strategy_version |-> v,
      total_losses     |-> l,
      positions        |-> [i \in 1..n |-> InputPosition(i)],
      trade_id_counter |-> n] :
         v \in {1, 2}, l \in {0, LOSS_THRESHOLD_FOR_ADAPTATION}, n \in 0..MaxOpen}

InitInputs ==
    /\ file \in {JsonDump(s) : s \in InputStates}
    /\ pc = [p \in Procs |-> "idle"]
    /\ state = [p \in Procs |-> DefaultState]
    /\ usable = [p \in Procs |-> TRUE]
    /\ pre = [p \in Procs |-> DefaultState]
    /\ loc = [p \in Procs |-> NoLocals]
    /\ log_messages = [p \in Procs |-> <<>>]
    /\ out = [p \in Procs |-> NoOutput]
    /\ openedIds = 1..file.data.trade_id_counter
    /\ everSwitched = (file.data.strategy_version = 2)
    /\ loaded = [p \in Procs |-> "none"]
    /\ closedPnL = [p \in Procs |-> 0]
    /\ savedPnL = 0
    /\ lastSaver = 0

SpecInputs == InitInputs /\ [][Next]_vars

\* Two invocations that overlap: each context runs one invocation, and both
\* run load_state before either runs save_state; apart from that their steps
\* interleave freely.  Nothing in the source orders them: the file has no lock.
\* The overlap starts with no state file, or with the file a first invocation
\* leaves behind after an executed order (one open position, counter 1).
AfterFirstTrade ==
    {OrderState(DefaultState,
                place_order(LotsToBuy(1, INITIAL_CAPITAL), premium, FALSE),
                LotsToBuy(1, INITIAL_CAPITAL), Signal(price)) :
         premium \in Premiums, price \in Prices}

InitConc ==
    /\ file \in {FileAbsent} \cup {JsonDump(s) : s \in AfterFirstTrade}
    /\ pc = [p \in Procs |-> "idle"]
    /\ state = [p \in Procs |-> DefaultState]
    /\ usable = [p \in Procs |-> TRUE]
    /\ pre = [p \in Procs |-> DefaultState]
    /\ loc = [p \in Procs |-> NoLocals]
    /\ log_messages = [p \in Procs |-> <<>>]
    /\ out = [p \in Procs |-> NoOutput]
    /\ openedIds = (IF file.kind = "state" THEN {1} ELSE {})
    /\ everSwitched = FALSE
    /\ loaded = [p \in Procs |-> "none"]
    /\ closedPnL = [p \in Procs |-> 0]
    /\ savedPnL = 0
    /\ lastSaver = 0

InFlight(p) == pc[p] \in {"adapt", "exit", "entry", "save"}

NextConc ==
    \/ \E p \in Procs :
          /\ pc[p] = "idle"
          /\ \A q \in Procs \ {p} : pc[q] = "idle" \/ InFlight(q)
          /\ load_state(p)
    \/ \E p \in Procs : adaptation_check(p)
    \/ \E p \in Procs : exit_logic(p)
    \/ \E p \in Procs : entry_logic(p)
    \/ \E p \in Procs : save_state(p)
    \/ \E p \in Procs : respond(p)

SpecConc == InitConc /\ [][NextConc]_vars

\* ---------------------------------------------------------------- claims
\* quant_agent_logic has returned in invocation p.
AfterLogic(p) == pc[p] \in {"save", "respond", "done"}

\* The cycle of invocation p started in version 1 with losses at or over the threshold.
OverThreshold(p) ==
    /\ pre[p].strategy_version = 1
    /\ pre[p].total_losses >= LOSS_THRESHOLD_FOR_ADAPTATION

\* C1 as stated: a cycle that starts with strategy_version = 1 and
\* total_losses >= 2500 ends with strategy_version = 2 and total_losses = 0,
\* whatever the exit and entry steps do.
C1_Original ==
    \A p \in Procs :
        (AfterLogic(p) /\ OverThreshold(p))
            => (state[p].strategy_version = 2 /\ state[p].total_losses = 0)

\* C1 amended: such a cycle ends with strategy_version = 2 and with
\* total_losses equal to the loss its own exit step realised after the reset
\* (0 when it closed nothing or closed without a loss).
C1_Amended ==
    \A p \in Procs :
        (AfterLogic(p) /\ OverThreshold(p))
            => /\ state[p].strategy_version = 2
               /\ state[p].total_losses =
                      (IF loc[p].closed /\ loc[p].PnL < 0 THEN -loc[p].PnL ELSE 0)

C1_Witness ==
    \E p \in Procs :
        AfterLogic(p) /\ OverThreshold(p) /\ loc[p].closed /\ loc[p].PnL < 0

\* C2 as stated: the trade_id_counter of the state an invocation works on is
\* never smaller than it was in any earlier invocation's state.
C2_Original ==
    [][\A p \in Procs :
          state'[p].trade_id_counter >= state[p].trade_id_counter]_vars

\* C3 as stated: once strategy_version is 2 it stays 2 in every later
\* invocation's state, and the v1->v2 switch happens at most once.
C3_Original ==
    [][\A p \in Procs :
          /\ state[p].strategy_version = 2 => state'[p].strategy_version = 2
          /\ (pc[p] = "adapt" /\ usable[p] /\ Adapts(state[p])) => ~everSwitched]_vars

\* Invocation p takes a step of quant_agent_logic.
LogicStep(p) == pc[p] \in {"adapt", "exit", "entry"} /\ pc'[p] # pc[p]

\* The step of invocation p performs the v1->v2 switch.
SwitchStep(p) == state[p].strategy_version = 1 /\ state'[p].strategy_version = 2

\* The step of invocation p closes a position at a loss.
LossStep(p) == ~loc[p].closed /\ loc'[p].closed /\ loc'[p].PnL < 0

\* C4: total_losses is never negative; the step of a cycle that switches
\* v1->v2 sets it to 0, and every other step of a cycle leaves it unchanged or
\* adds the magnitude of the loss realised by that step (so no other step
\* lowers it or sets it to 0).
C4_LossesResetOnlyOnSwitch ==
    /\ [](\A p \in Procs : state[p].total_losses >= 0)
    /\ [][\A p \in Procs :
             LogicStep(p) =>
                 /\ SwitchStep(p) => state'[p].total_losses = 0
                 /\ ~SwitchStep(p) =>
                        \/ state'[p].total_losses = state[p].total_losses
                        \/ /\ LossStep(p)
                           /\ state'[p].total_losses = state[p].total_losses - loc'[p].PnL]_vars

C4_Witness ==
    \E p \in Procs :
        /\ pc[p] = "exit"
        /\ OverThreshold(p)
        /\ state[p].strategy_version = 2
        /\ state[p].total_losses = 0

\* C5: an order placed under version 1 is for max(1, floor(capital/7500)) lots,
\* capital being the capital at the entry step; under version 2 it is for 1 lot.
C5_LotSizing ==
    \A p \in Procs :
        (AfterLogic(p) /\ loc[p].orders > 0) =>
            /\ state[p].strategy_version = 1 =>
                   loc[p].lots_to_buy = Max(1, loc[p].available_capital \div 7500)
            /\ state[p].strategy_version = 2 => loc[p].lots_to_buy = 1

C5_Witness ==
    \E p \in Procs :
        /\ AfterLogic(p)
        /\ loc[p].orders > 0
        /\ state[p].strategy_version = 1
        /\ loc[p].available_capital >= 15000
        /\ loc[p].lots_to_buy = 2

ErrorLines(logs) == Cardinality({i \in DOMAIN logs : logs[i] = "ERROR"})

Rejected(p) == AfterLogic(p) /\ loc[p].order_result.status = "REJECTED"

\* C6 as stated: after a cycle whose order was rejected, positions, capital
\* and trade_id_counter equal those before the cycle, and the cycle logged
\* exactly one error line.
C6_Original ==
    \A p \in Procs :
        Rejected(p) =>
            /\ state[p].positions = pre[p].positions
            /\ state[p].capital = pre[p].capital
            /\ state[p].trade_id_counter = pre[p].trade_id_counter
            /\ ErrorLines(log_messages[p]) = 1

\* C6 amended: after a cycle whose order was rejected, positions and capital
\* are as they were at the entry step (no position, the capital the entry step
\* read), trade_id_counter is as before the cycle, and the cycle logged exactly
\* one error line; positions and capital equal those before the cycle when the
\* exit step of the cycle closed nothing.
C6_Amended ==
    \A p \in Procs :
        Rejected(p) =>
            /\ state[p].positions = <<>>
            /\ state[p].capital = loc[p].available_capital
            /\ state[p].trade_id_counter = pre[p].trade_id_counter
            /\ ErrorLines(log_messages[p]) = 1
            /\ ~loc[p].closed =>
                   /\ state[p].positions = pre[p].positions
                   /\ state[p].capital = pre[p].capital

C6_Witness == \E p \in Procs : Rejected(p) /\ loc[p].closed

\* The cycle of invocation p closed the only position it started with.
ClosedSole(p) == loc[p].closed /\ Len(pre[p].positions) = 1

\* C7 as stated: after a cycle that closed the sole open position, capital is
\* the capital before the cycle plus entry_cost + PnL, total_losses is the
\* total_losses before the cycle plus max(0, -PnL), and positions is empty.
C7_Original ==
    \A p \in Procs :
        (AfterLogic(p) /\ ClosedSole(p)) =>
            /\ state[p].capital = pre[p].capital + loc[p].pos.entry_cost + loc[p].PnL
            /\ state[p].total_losses = pre[p].total_losses + Max(0, -loc[p].PnL)
            /\ state[p].positions = <<>>

\* C7 amended: the exit step that closes the sole open position raises capital
\* by entry_cost + PnL and total_losses by max(0, -PnL) over their values just
\* before the exit step, and leaves positions empty at the end of the exit
\* step (the entry step of the same cycle then places an order).
C7_Amended ==
    [][\A p \in Procs :
          (pc[p] = "exit" /\ pc'[p] = "entry" /\ loc'[p].closed
             /\ Len(state[p].positions) = 1) =>
              /\ loc'[p].pos = state[p].positions[1]
              /\ state'[p].capital =
                     state[p].capital + loc'[p].pos.entry_cost + loc'[p].PnL
              /\ state'[p].total_losses =
                     state[p].total_losses + Max(0, -loc'[p].PnL)
              /\ state'[p].positions = <<>>]_vars

C7_Witness ==
    \E p \in Procs :
        pc[p] = "entry" /\ ClosedSole(p) /\ loc[p].PnL < 0 /\ state[p].positions = <<>>

\* C8: an invocation calls place_order at most once, and only when no position
\* is open at the entry step; an invocation that started with an open position
\* and did not close it has placed no order.
C8_AtMostOneOrder ==
    /\ [](\A p \in Procs :
             /\ loc[p].orders <= 1
             /\ (AfterLogic(p) /\ pre[p].positions # <<>> /\ ~loc[p].closed)
                    => loc[p].orders = 0)
    /\ [][\A p \in Procs :
             loc'[p].orders > loc[p].orders =>
                 (pc[p] = "entry" /\ state[p].positions = <<>>)]_vars

C8_Witness ==
    \E p \in Procs :
        pc[p] = "done" /\ pre[p].positions # <<>> /\ ~loc[p].closed /\ loc[p].orders = 0

\* The step of invocation p opens a position.
OpenStep(p) ==
    pc[p] = "entry" /\ Len(state'[p].positions) > Len(state[p].positions)

\* C9 as stated: no two positions ever opened carry the same id, and a new
\* position's id is the trade_id_counter after its increment by 1.
C9_Original ==
    [][\A p \in Procs :
          OpenStep(p) =>
              LET new == state'[p].positions[Len(state'[p].positions)] IN
                /\ new.id \notin openedIds
                /\ new.id = state'[p].trade_id_counter
                /\ state'[p].trade_id_counter = state[p].trade_id_counter + 1]_vars

\* C10 as stated: no invocation ends in an uncaught error, and every
\* invocation that ends returns status 200 with the log summary.
C10_Original ==
    \A p \in Procs :
        /\ pc[p] # "crashed"
        /\ pc[p] = "done" =>
               (out[p].status = 200 /\ out[p].response = ResponseLogs(log_messages[p]))

\* Invocation p takes its load_state step.
LoadStep(p) == pc[p] \in {"idle", "done", "crashed"} /\ pc'[p] = "adapt"

\* Invocation p takes its save_state step.
SaveStep(p) == pc[p] = "save" /\ pc'[p] # "save"

\* save_state of invocation p did not print its error line.
SavedOk(p) == \A i \in DOMAIN out[p].printed : out[p].printed[i] # "ERROR: Could not save state"

\* C11: load_state returns what the file holds, unchanged, when the file holds
\* a saved state and is read, and that is the state the last successful
\* save_state wrote (a successful save leaves exactly the saved state in the
\* file, a failed one leaves the file as it was or unparseable); when the file
\* is absent or does not parse it returns capital 10000, strategy_version 1,
\* total_losses 0, no positions, trade_id_counter 0; after save_state, failed
\* or not, the invocation goes on to its response.
C11_LoadReturnsLastSave ==
    [][\A p \in Procs :
          /\ LoadStep(p) =>
                /\ (file.kind \in {"absent", "corrupt"} \/ loaded'[p] = "default") =>
                       /\ loaded'[p] = "default"
                       /\ state'[p] = [capital |-> 10000, strategy_version |-> 1,
                                       total_losses |-> 0, positions |-> <<>>,
                                       trade_id_counter |-> 0]
                /\ (file.kind = "state" /\ loaded'[p] = "file") =>
                       /\ usable'[p]
                       /\ state'[p] = file.data
                /\ (pc[p] = "done" /\ lastSaver = p /\ SavedOk(p) /\ loaded'[p] = "file") =>
                       state'[p] = state[p]
          /\ SaveStep(p) =>
                /\ pc'[p] = "respond"
                /\ IF SavedOk(p)'
                   THEN file'.kind = "state" /\ file'.data = state[p]
                   ELSE file' = file \/ file'.kind = "corrupt"]_vars

C11_Witness ==
    \E p \in Procs :
        /\ pc[p] = "adapt"
        /\ loaded[p] = "file"
        /\ usable[p]
        /\ state[p].trade_id_counter > 0
        /\ state[p].positions # <<>>

\* Invocation p takes its entry step.
EntryStep(p) == pc[p] = "entry" /\ pc'[p] = "save"

\* C12: the entry step places an order whenever no position is open, whatever
\* the capital, and an executed order opens the position and debits its full
\* entry_cost also when the cost exceeds the capital; capital < 0 is reached
\* from the default state (C12_Witness).
C12_OrderNotCheckedAgainstCapital ==
    [][\A p \in Procs :
          (EntryStep(p) /\ state[p].positions = <<>>) =>
              /\ loc'[p].orders = loc[p].orders + 1
              /\ loc'[p].order_result.status = "EXECUTED" =>
                     /\ Len(state'[p].positions) = 1
                     /\ state'[p].capital =
                            state[p].capital - loc'[p].order_result.entry_cost]_vars

C12_Witness ==
    \E p \in Procs :
        /\ AfterLogic(p)
        /\ loc[p].order_result.status = "EXECUTED"
        /\ loc[p].order_result.entry_cost > loc[p].available_capital
        /\ state[p].capital < 0

\* Both invocations ran to their end and both saves succeeded.
BothSaved == \A p \in Procs : pc[p] = "done" /\ SavedOk(p)

\* The position the cycle of invocation p opened.
Opened(p) == state[p].positions[Len(state[p].positions)]

Executed(p) == loc[p].order_result.status = "EXECUTED"

\* C13: after two overlapping invocations whose saves both succeeded, the file
\* holds exactly the state of the invocation that saved last, q.  What the
\* other invocation p did to the state both loaded is not in it: a position p
\* closed and q did not is still open in the file with the capital unchanged,
\* and when both opened a position the two positions carry the same id and the
\* file's trade_id_counter went up by 1, not 2.
C13_LastWriteWins ==
    \A p, q \in Procs :
        (p # q /\ BothSaved /\ lastSaver = q) =>
            /\ file.kind = "state"
            /\ file.data = state[q]
            /\ pre[p] = pre[q] =>
                   /\ (loc[p].closed /\ ~loc[q].closed) =>
                          /\ file.data.positions = pre[p].positions
                          /\ file.data.capital = pre[p].capital
                   /\ (Executed(p) /\ Executed(q)) =>
                          /\ Opened(p).id = Opened(q).id
                          /\ file.data.trade_id_counter = pre[p].trade_id_counter + 1

C13_Witness ==
    /\ BothSaved
    /\ lastSaver = 2
    /\ pre[1] = pre[2]
    /\ pre[1].positions # <<>>
    /\ loc[1].closed /\ loc[2].closed
    /\ Executed(1) /\ Executed(2)
    /\ Opened(1).id = Opened(2).id
    /\ state[1] # state[2]
    /\ file.data = state[2]

\* Invocation p takes its exit step.
ExitStep(p) == pc[p] = "exit" /\ pc'[p] = "entry"

C15_ExecutedOrderEffect ==
    [][\A p \in Procs :
          (EntryStep(p) /\ loc'[p].order_result.status = "EXECUTED") =>
              LET old == state[p].positions
                  new == state'[p].positions
                  res == loc'[p].order_result
              IN /\ Len(new) = Len(old) + 1
                 /\ \A i \in 1..Len(old) : new[i] = old[i]
                 /\ new[Len(new)].lots = loc'[p].lots_to_buy
                 /\ new[Len(new)].type =
                        (IF loc'[p].current_nifty_price > 23000 THEN "BUY_CE" ELSE "BUY_PE")
                 /\ new[Len(new)].entry_cost = res.entry_cost
                 /\ state'[p].trade_id_counter = state[p].trade_id_counter + 1
                 /\ state'[p].capital = state[p].capital - res.entry_cost
                 /\ state'[p].strategy_version = state[p].strategy_version
                 /\ state'[p].total_losses = state[p].total_losses]_vars

C15_Witness ==
    \E p \in Procs :
        /\ pc[p] = "save"
        /\ Executed(p)
        /\ loc[p].current_nifty_price = 23000
        /\ Opened(p).type = "BUY_PE"
        /\ Opened(p).lots = 2

\* C16: in runs of non-overlapping invocations from the default state, the
\* state an invocation works on and the state the file holds have at most one
\* open position.
C16_AtMostOneOpen ==
    /\ \A p \in Procs : Len(state[p].positions) <= 1
    /\ file.kind = "state" => Len(file.data.positions) <= 1

C16_Witness ==
    \E p \in Procs :
        /\ pc[p] = "save"
        /\ Len(pre[p].positions) = 1
        /\ Len(state[p].positions) = 1
        /\ file.kind = "state"
        /\ Len(file.data.positions) = 1

RECURSIVE OpenCost(_)
\* The sum of entry_cost over a list of positions.
OpenCost(positions) ==
    IF positions = <<>> THEN 0
    ELSE Head(positions).entry_cost + OpenCost(Tail(positions))

\* Capital plus the entry cost of the open positions.
Worth(s) == s.capital + OpenCost(s.positions)

\* C17: without load or save failure, capital plus the entry cost of the open
\* positions equals 10000 plus the PnL of all positions closed so far, in the
\* state an invocation works on and in the state the file holds; an entry
\* step (order executed or rejected) leaves capital plus open entry cost
\* unchanged.
C17_MoneyConserved ==
    /\ [](/\ \A p \in Procs : Worth(state[p]) = 10000 + closedPnL[p]
          /\ file.kind = "state" => Worth(file.data) = 10000 + savedPnL)
    /\ [][\A p \in Procs : EntryStep(p) => Worth(state'[p]) = Worth(state[p])]_vars

C17_Witness ==
    \E p \in Procs :
        /\ pc[p] = "done"
        /\ closedPnL[p] < 0
        /\ loc[p].closed
        /\ loc[p].PnL > 0
        /\ Executed(p)
        /\ state[p].positions # <<>>

\* The cycle of invocation p ran under version 1 from losses under the
\* threshold, and the loss of the position it closed takes them to it or over.
CrossedThisCycle(p) ==
    /\ AfterLogic(p)
    /\ pre[p].strategy_version = 1
    /\ pre[p].total_losses < LOSS_THRESHOLD_FOR_ADAPTATION
    /\ loc[p].closed
    /\ pre[p].total_losses + Max(0, -loc[p].PnL) >= LOSS_THRESHOLD_FOR_ADAPTATION

\* C18: a version-1 cycle whose closing loss takes total_losses to 2500 or
\* more ends with strategy_version 1 and total_losses >= 2500, and its order
\* is sized by the version-1 rule; within a cycle strategy_version changes
\* only in the adaptation check, the first step, which switches a state with
\* version 1 and total_losses >= 2500 to version 2 before the exit and entry
\* steps of that cycle.
C18_AdaptationLags ==
    /\ [](\A p \in Procs :
             CrossedThisCycle(p) =>
                 /\ state[p].strategy_version = 1
                 /\ state[p].total_losses >= 2500
                 /\ loc[p].orders > 0 =>
                        /\ loc[p].lots_to_buy = Max(1, loc[p].available_capital \div 7500)
                        /\ \E i \in DOMAIN log_messages[p] : log_messages[p][i] = "DUMB_TRADE")
    /\ [][\A p \in Procs :
             /\ (LogicStep(p) /\ state'[p].strategy_version # state[p].strategy_version)
                    => (pc[p] = "adapt" /\ SwitchStep(p))
             /\ (pc[p] = "adapt" /\ usable[p] /\ state[p].strategy_version = 1
                    /\ state[p].total_losses >= 2500)
                    => (pc'[p] = "exit" /\ state'[p].strategy_version = 2)]_vars

C18_Witness ==
    \E p \in Procs :
        /\ pc[p] = "done"
        /\ CrossedThisCycle(p)
        /\ Executed(p)
        /\ state[p].strategy_version = 1
        /\ state[p].total_losses >= 2500

====
